---- MODULE Spec2Model ----
(***************************************************************************)
(* Model of the SSE transport (src/transport/sse.rs) and of the protocol   *)
(* dispatcher (crates/offeryn-core/src/server/mod.rs) of mcp-rs.           *)
(*                                                                         *)
(* A submission (POST /message) is a task with a program counter; the      *)
(* suspension points of the Rust code (server.lock().await, the registry   *)
(* lock, tool.execute().await, tx.send().await) separate its steps.        *)
(***************************************************************************)
EXTENDS Integers, Sequences, FiniteSets, TLC

(***************************************************************************)
(* Bounds of the model.                                                    *)
(***************************************************************************)
MaxSessions == 2        \* streams that are ever opened
MaxReqs == 3            \* submissions that are ever received
MaxInFlight == 2        \* submissions that are in their handler at once
ChannelCapacity == 1    \* mpsc::channel(100), scaled down
MaxAge == 2             \* tick periods counted after a disconnect
WideReqs == 1           \* submissions drawn from the whole wire format
MaxTools == 2           \* tool implementations that are ever registered
MaxRegistrations == 2   \* tools handed to the registration methods
MaxBatch == 2           \* tools handed to with_tools or register_tools at once

SessionIds == 1..MaxSessions
Reqs == 1..MaxReqs
NoSession == 0          \* the query string has no sessionId
NoTask == 0             \* a lock nobody holds
ToolImpls == 1..MaxTools

ToolNames == {"add", "multiply", "divide"}

\* the registry of the server handed to create_router
RegisteredAtStartup == [n \in {"add", "multiply"} |-> 1]
RegistrationsAtStartup ==
    <<[name |-> "add", tool |-> 1, by |-> "with_tool"],
      [name |-> "multiply", tool |-> 1, by |-> "with_tool"]>>

ServerErrorCode == -32000
MethodNotFoundCode == -32601
InvalidRequestCode == -32600

(***************************************************************************)
(* Wire format of a submission: JsonRpcRequestWrapper.                     *)
(***************************************************************************)
AbsentId == [kind |-> "absent", num |-> 0, str |-> ""]
UIntId(n) == [kind |-> "uint", num |-> n, str |-> ""]
NumberId(n) == [kind |-> "number", num |-> n, str |-> ""]
StringId(s) == [kind |-> "string", num |-> 0, str |-> s]

WireIds == {AbsentId, UIntId(7), NumberId(-1), StringId("abc")}
PlainIds == {UIntId(7)}

AbsentParams == [kind |-> "absent", has_name |-> FALSE, name |-> ""]
NonObjectParams == [kind |-> "nonobject", has_name |-> FALSE, name |-> ""]
ObjectParams(has, n) == [kind |-> "object", has_name |-> has, name |-> n]

WireParams ==
    {AbsentParams, NonObjectParams, ObjectParams(FALSE, "")}
        \cup {ObjectParams(TRUE, n) : n \in ToolNames}

\* params are read by tools/call only; the other methods get none
WireCalls ==
    {[method |-> m, params |-> AbsentParams] :
        m \in {"initialize", "tools/list", "resources/list",
              "notifications/initialized"}}
        \cup {[method |-> "tools/call", params |-> p] : p \in WireParams}

\* every call with a plain id, and every id with a call that succeeds and
\* a call that fails
JsonRpcRequestWrapper ==
    {[id |-> i, method |-> c.method, params |-> c.params] :
        i \in PlainIds, c \in WireCalls}
    \cup
    {[id |-> i, method |-> m, params |-> AbsentParams] :
        i \in WireIds, m \in {"initialize", "resources/list"}}

\* the first submission ranges over the whole wire format, the later ones
\* over one request of each outcome of the dispatcher
PlainCalls ==
    {[method |-> "initialize", params |-> AbsentParams],
     [method |-> "resources/list", params |-> AbsentParams],
     [method |-> "tools/call", params |-> ObjectParams(TRUE, "add")]}

BodiesAt(r) ==
    IF r <= WideReqs THEN JsonRpcRequestWrapper
    ELSE {[id |-> i, method |-> c.method, params |-> c.params] :
            i \in PlainIds, c \in PlainCalls}

(***************************************************************************)
(* jsonrpc_core values built by the transport and the dispatcher.          *)
(***************************************************************************)
IdNull == [kind |-> "Null", num |-> 0]
IdNum(n) == [kind |-> "Num", num |-> n]

ParamsNone == [kind |-> "None", has_name |-> FALSE, name |-> ""]
ParamsMap(has, n) == [kind |-> "Map", has_name |-> has, name |-> n]

\* Option<u64> of serde_json::Value::as_u64, then unwrap_or(0)
AsU64OrZero(id) == IF id.kind = "uint" THEN id.num ELSE 0

ConvertId(id) ==
    IF id.kind = "absent" THEN IdNull ELSE IdNum(AsU64OrZero(id))

ConvertParams(p) ==
    IF p.kind = "object" THEN ParamsMap(p.has_name, p.name) ELSE ParamsNone

WrapRequest(w) ==
    [type |-> "MethodCall", method |-> w.method,
     params |-> ConvertParams(w.params), id |-> ConvertId(w.id)]

NoCall ==
    [type |-> "none", method |-> "", params |-> ParamsNone, id |-> IdNull]

EmptyResult ==
    [tag |-> "empty", names |-> {}, listing |-> <<>>, content |-> <<>>,
     is_error |-> FALSE, code |-> 0]

Success(id, result) == [kind |-> "success", id |-> id, result |-> result]
Failure(id, code) ==
    [kind |-> "failure", id |-> id,
     result |-> [EmptyResult EXCEPT !.tag = "error", !.code = code]]
NoEnvelope == [kind |-> "none", id |-> IdNull, result |-> EmptyResult]

Ok(env) == [tag |-> "Ok", env |-> env, err |-> ""]
Err(e) == [tag |-> "Err", env |-> NoEnvelope, err |-> e]
NoResult == [tag |-> "none", env |-> NoEnvelope, err |-> ""]

HttpOk(env) == [status |-> 200, body |-> env]
HttpErr(code) == [status |-> code, body |-> NoEnvelope]
NoHttp == [status |-> 0, body |-> NoEnvelope]

\* what a tool's execute may produce: ToolResult or an execution failure
\* (error is the detail of the failure, "" when there is none)
ToolOutcomes ==
    {[ok |-> TRUE, content |-> <<"5", "five">>, is_error |-> FALSE,
      error |-> ""],
     [ok |-> TRUE, content |-> <<"Cannot divide by zero">>, is_error |-> TRUE,
      error |-> ""]}
    \cup {[ok |-> FALSE, content |-> <<>>, is_error |-> FALSE, error |-> e] :
            e \in {"overflow", "timeout"}}

\* no execute has returned
NoOutcome == [ok |-> FALSE, content |-> <<>>, is_error |-> FALSE, error |-> ""]

\* format!("/message?sessionId={}", session_id)
EndpointUrl_Fixed(session_id) == [path |-> "/message", sessionId |-> 1]

EndpointUrl(session_id) == [path |-> "/message", sessionId |-> session_id]

NoUrl == [path |-> "", sessionId |-> NoSession]

NoEvent == [event |-> "none", sid |-> 0, data |-> NoEnvelope, seq |-> 0]
EndpointEvent(s) ==
    [event |-> "endpoint", sid |-> s, data |-> NoEnvelope, seq |-> 0,
     url |-> EndpointUrl(s)]
\* the "message" event of a response: its data is the envelope; sid (the
\* session of the submission) and seq (its number on the channel) tell
\* the events of a run apart
MessageEvent(env, sid, n) ==
    [event |-> "message", sid |-> sid, data |-> env, seq |-> n]

\* an event in the channel's buffer: the channel and the stream pass the
\* data on without reading it, and the buffer keeps it by the event's number
Buffered(ev) == [ev EXCEPT !.data = NoEnvelope]

VARIABLES
    connections,      \* SseTransport.connections: session id -> sender
    state_lock,       \* holder of Arc<Mutex<SseTransport>> while tasks are
                      \* suspended
    stream,           \* per session: the state of the stream holding rx
    queue,            \* per session: events buffered in the mpsc channel
    sent_count,       \* per session: events the channel has accepted
    yielded_count,    \* per session: message events the stream has yielded
    last_seq,         \* per session: number of the event yielded last
    endpoint,         \* per session: data of the endpoint event the stream
                      \* has yielded, or NoUrl
    server,           \* holder of Arc<tokio::sync::Mutex<McpServer>>
    tools_lock,       \* holder of McpServer.tools
    tools,            \* the registry: tool name -> tool
    registered,       \* the tools handed to the registration methods, in
                      \* the order of their insertion
    pc,               \* per submission: position in message_handler
    sent,             \* per submission: the session id the client sent, the
                      \* id of its body once the session was found, and
                      \* whether the consumer was connected at that time
    req,              \* per submission: the Request built from the body
    tx,               \* per submission: the cloned sender
    executed,         \* per submission: what tool.execute returned
    response,         \* per submission: result of handle_request
    pushed,           \* per submission: the event it sent, or NoEvent
    http,             \* per submission: what the POST returns
    age               \* per session: tick periods since its disconnect

vars ==
    <<connections, state_lock, stream, queue, sent_count, yielded_count,
      last_seq,
      endpoint, server, tools_lock, tools, registered, pc, sent, req, tx,
      executed, response, pushed, http, age>>

streamVars == <<stream, queue, sent_count, yielded_count, last_seq, endpoint>>
serverVars == <<server, tools_lock, tools, registered>>
reqVars == <<pc, sent, req, tx, executed, response, pushed, http>>
reaperVars == <<age>>

NotSent == [sid |-> NoSession, id |-> AbsentId, live |-> FALSE]

Init ==
    /\ connections = [s \in {} |-> NoSession]
    /\ state_lock = NoTask
    /\ stream = [s \in SessionIds |-> "none"]
    /\ queue = [s \in SessionIds |-> <<>>]
    /\ sent_count = [s \in SessionIds |-> 0]
    /\ yielded_count = [s \in SessionIds |-> 0]
    /\ last_seq = [s \in SessionIds |-> 0]
    /\ endpoint = [s \in SessionIds |-> NoUrl]
    /\ server = NoTask
    /\ tools_lock = NoTask
    /\ tools = RegisteredAtStartup
    /\ registered = RegistrationsAtStartup
    /\ pc = [r \in Reqs |-> "idle"]
    /\ sent = [r \in Reqs |-> NotSent]
    /\ req = [r \in Reqs |-> NoCall]
    /\ tx = [r \in Reqs |-> NoSession]
    /\ executed = [r \in Reqs |-> NoOutcome]
    /\ response = [r \in Reqs |-> NoResult]
    /\ pushed = [r \in Reqs |-> NoEvent]
    /\ http = [r \in Reqs |-> NoHttp]
    /\ age = [s \in SessionIds |-> 0]

(***************************************************************************)
(* HashMap and tokio::sync::mpsc primitives the handlers use.              *)
(***************************************************************************)
\* the first value of a key is kept
Insert_KeepFirst(map, k, v) ==
    [x \in DOMAIN map \cup {k} |-> IF x \in DOMAIN map THEN map[x] ELSE v]

\* HashMap::insert: the value replaces the one the key had
Insert(map, k, v) ==
    [x \in DOMAIN map \cup {k} |-> IF x = k THEN v ELSE map[x]]

\* the lookup finds every key
ContainsKey_Always(map, k) == TRUE

ContainsKey(map, k) == k \in DOMAIN map

\* the guard of the Session Table is kept after the lookup
TableGuardAfterLookup_Kept(r) == r

\* the holder of the Session Table's lock when message_handler reaches
\* server.lock().await: the guard is dropped at the end of the block
TableGuardAfterLookup(r) == NoTask

\* the same when sse_handler returns, and when a reaper pass has returned
TableGuardAfterInsert == NoTask
TableGuardAfterRetain == NoTask

\* the sender of another session is taken
GetCloned_Any(map, k) == map[CHOOSE x \in DOMAIN map : \A y \in DOMAIN map : y <= x]

\* HashMap::get(..).cloned(): the sender, or NoSession for None
GetCloned(map, k) == IF k \in DOMAIN map THEN map[k] ELSE NoSession

\* Sender::is_closed: the receiver half was dropped
IsClosed(c) == stream[c] = "closed"

IsFull(c) == Len(queue[c]) >= ChannelCapacity

\* the send does not see that the receiver is gone
SendOutcome_NeverClosed(c) == IF IsFull(c) THEN "pending" ELSE "ready"

\* first poll of Sender::send: Err when closed, a permit when there is
\* room, Pending otherwise
SendOutcome(c) ==
    IF IsClosed(c) THEN "closed"
    ELSE IF IsFull(c) THEN "pending"
    ELSE "ready"

\* the event is buffered twice
ChannelPush_Twice(q, ev) == Append(Append(q, ev), ev)

ChannelPush(q, ev) == Append(q, ev)

\* Receiver::recv of a non-empty channel: the oldest event
ChannelPeek(q) == Head(q)
\* the event stays in the buffer
ChannelPop_Keep(q) == q

ChannelPop(q) == Tail(q)

\* Uuid::new_v4: an id no stream has had
FreshSessionIds == {s \in SessionIds : stream[s] = "none"}
NewSessionId == CHOOSE s \in FreshSessionIds : \A t \in FreshSessionIds : s <= t

(***************************************************************************)
(* GET /sse                                                                *)
(***************************************************************************)
SseHandler ==
    /\ FreshSessionIds # {}
    /\ state_lock = NoTask
    /\ state_lock' = TableGuardAfterInsert
    /\ LET session_id == NewSessionId IN
        /\ connections' = Insert(connections, session_id, session_id)
        /\ stream' = [stream EXCEPT ![session_id] = "created"]
    /\ UNCHANGED <<queue, sent_count, yielded_count, last_seq, endpoint>>
    /\ UNCHANGED <<serverVars, reqVars, reaperVars>>

\* first poll of the stream: the endpoint event
StreamYieldEndpoint(s) ==
    /\ stream[s] = "created"
    /\ stream' = [stream EXCEPT ![s] = "streaming"]
    /\ endpoint' = [endpoint EXCEPT ![s] = EndpointEvent(s).url]
    /\ UNCHANGED <<connections, state_lock, queue, sent_count, yielded_count, last_seq>>
    /\ UNCHANGED <<serverVars, reqVars, reaperVars>>

\* while let Some(event) = rx.recv().await { yield event }
StreamYieldEvent(s) ==
    /\ stream[s] = "streaming"
    /\ queue[s] # <<>>
    /\ last_seq' = [last_seq EXCEPT ![s] = ChannelPeek(queue[s]).seq]
    /\ yielded_count' = [yielded_count EXCEPT ![s] = @ + 1]
    /\ queue' = [queue EXCEPT ![s] = ChannelPop(@)]
    /\ UNCHANGED <<connections, state_lock, stream, sent_count, endpoint>>
    /\ UNCHANGED <<serverVars, reqVars, reaperVars>>

\* the consumer disconnects: the stream and its rx are dropped, which
\* closes the channel and discards what it buffered
ConsumerDisconnects(s) ==
    /\ stream[s] \in {"created", "streaming"}
    /\ stream' = [stream EXCEPT ![s] = "closed"]
    /\ queue' = [queue EXCEPT ![s] = <<>>]
    /\ sent_count' = [sent_count EXCEPT ![s] = 0]
    /\ yielded_count' = [yielded_count EXCEPT ![s] = 0]
    /\ last_seq' = [last_seq EXCEPT ![s] = 0]
    /\ endpoint' = [endpoint EXCEPT ![s] = NoUrl]
    /\ UNCHANGED <<connections, state_lock>>
    /\ UNCHANGED <<serverVars, reqVars, reaperVars>>

(***************************************************************************)
(* McpServer::handle_request                                               *)
(***************************************************************************)
RECURSIVE ListingOf(_)
ListingOf(names) ==
    IF names = {} THEN <<>>
    ELSE LET n == CHOOSE x \in names : TRUE
         IN <<[name |-> n, tool |-> tools[n]]>> \o ListingOf(names \ {n})

InitializeResult ==
    [EmptyResult EXCEPT !.tag = "initialize", !.names = DOMAIN tools]

ListToolsResult ==
    [EmptyResult EXCEPT !.tag = "tools/list",
                        !.listing = ListingOf(DOMAIN tools)]

\* is_error is left out of the result
CallToolResult_NoFlag(outcome) ==
    [EmptyResult EXCEPT !.tag = "tools/call", !.content = outcome.content]

CallToolResult(outcome) ==
    [EmptyResult EXCEPT !.tag = "tools/call",
                        !.content = outcome.content,
                        !.is_error = outcome.is_error]

\* the arms of handle_request that take the registry lock
NeedsRegistry(call) ==
    /\ call.type = "MethodCall"
    /\ \/ call.method \in {"initialize", "tools/list"}
       \/ /\ call.method = "tools/call"
          /\ call.params.kind = "Map"
          /\ call.params.has_name

\* every such request is an invalid request
DispatchWithoutRegistry_Invalid(call) ==
    Ok(Failure(call.id, InvalidRequestCode))

DispatchWithoutRegistry(call) ==
    IF call.type = "Notification"
    THEN Ok(Success(IdNum(0), EmptyResult))
    ELSE IF call.type # "MethodCall"
    THEN Ok(Failure(IdNum(0), InvalidRequestCode))
    ELSE IF call.method = "tools/call"
    THEN Err("InvalidParams")
    ELSE Ok(Failure(call.id, MethodNotFoundCode))

\* tools_lock.get(&request.name).ok_or_else(.. McpError::MethodNotFound)?
ToolLookup(name) ==
    IF name \in DOMAIN tools THEN Ok(NoEnvelope) ELSE Err("MethodNotFound")

\* the detail of the failure is put into the envelope
ExecuteResponse_Leaky(id, outcome) ==
    IF outcome.ok
    THEN Ok(Success(id, CallToolResult(outcome)))
    ELSE Ok([Failure(id, ServerErrorCode) EXCEPT
                !.result.content = <<outcome.error>>])

\* match tool.execute(args).await
ExecuteResponse(id, outcome) ==
    IF outcome.ok
    THEN Ok(Success(id, CallToolResult(outcome)))
    ELSE Ok(Failure(id, ServerErrorCode))

(***************************************************************************)
(* POST /message                                                           *)
(***************************************************************************)
\* the result of the handler is ready; Return hands it to the client
Returning(r, result) ==
    /\ http' = [http EXCEPT ![r] = result]
    /\ pc' = [pc EXCEPT ![r] = "returning"]

InFlight == {q \in Reqs : pc[q] \notin {"idle", "done"}}

\* the route closure and message_handler up to server.lock().await
Submit(r, sid, w) ==
    /\ pc[r] = "idle"
    /\ IF r = 1 THEN TRUE ELSE pc[r - 1] # "idle"
    /\ Cardinality(InFlight) < MaxInFlight
    /\ w \in BodiesAt(r)
    /\ state_lock = NoTask
    /\ state_lock' = TableGuardAfterLookup(r)
    /\ sent' = [sent EXCEPT ![r] =
                  [sid |-> sid,
                   id |-> IF ContainsKey(connections, sid)
                          THEN w.id ELSE AbsentId,
                   live |-> IF sid \in DOMAIN connections
                            THEN ~IsClosed(connections[sid]) ELSE FALSE]]
    /\ IF sid = NoSession
       THEN /\ Returning(r, HttpErr(400))
            /\ UNCHANGED <<tx, req>>
       ELSE IF ~ContainsKey(connections, sid)
       THEN /\ Returning(r, HttpErr(404))
            /\ UNCHANGED <<tx, req>>
       ELSE IF GetCloned(connections, sid) = NoSession
       THEN /\ Returning(r, HttpErr(500))
            /\ UNCHANGED <<tx, req>>
       ELSE /\ tx' = [tx EXCEPT ![r] = GetCloned(connections, sid)]
            /\ req' = [req EXCEPT ![r] = WrapRequest(w)]
            /\ pc' = [pc EXCEPT ![r] = "wait_server"]
            /\ UNCHANGED http
    /\ UNCHANGED <<executed, response, pushed>>
    /\ UNCHANGED <<connections, streamVars, serverVars, reaperVars>>

\* every response is echoed on the stream
IsSuccessResponse_Always(env) == TRUE

\* if let Response::Single(Output::Success(_)) = &response
IsSuccessResponse(env) == env.kind = "success"

\* tx.send(Ok(event)) got its permit: the event is buffered and the
\* handler goes on to Ok(Json(response))
SendCompletes(r, c, env) ==
    LET ev == MessageEvent(env, sent[r].sid, sent_count[c] + 1)
    IN /\ queue' = [queue EXCEPT ![c] = ChannelPush(@, Buffered(ev))]
       /\ sent_count' = [sent_count EXCEPT ![c] = @ + 1]
       /\ pushed' = [pushed EXCEPT ![r] = ev]
       /\ Returning(r, HttpOk(env))

\* message_handler from the return of handle_request to the first poll of
\* tx.send(..)
Respond(r, result) ==
    /\ response' = [response EXCEPT ![r] = result]
    /\ IF result.tag = "Err"
       THEN /\ Returning(r, HttpErr(500))
            /\ UNCHANGED <<queue, sent_count, pushed>>
       ELSE IF ~IsSuccessResponse(result.env)
       THEN /\ Returning(r, HttpOk(result.env))
            /\ UNCHANGED <<queue, sent_count, pushed>>
       ELSE IF SendOutcome(tx[r]) = "closed"
       THEN /\ Returning(r, HttpErr(500))
            /\ UNCHANGED <<queue, sent_count, pushed>>
       ELSE IF SendOutcome(tx[r]) = "ready"
       THEN SendCompletes(r, tx[r], result.env)
       ELSE /\ pc' = [pc EXCEPT ![r] = "sending"]
            /\ UNCHANGED <<queue, sent_count, pushed, http>>

\* the result of handle_request when it returns without executing a tool
HandleWithoutExecute(call) ==
    IF ~NeedsRegistry(call) THEN DispatchWithoutRegistry(call)
    ELSE IF call.method = "initialize"
    THEN Ok(Success(call.id, InitializeResult))
    ELSE IF call.method = "tools/list"
    THEN Ok(Success(call.id, ListToolsResult))
    ELSE ToolLookup(call.params.name)

\* whether handle_request reaches tool.execute(args).await
ReachesExecute(call) ==
    /\ NeedsRegistry(call)
    /\ call.method = "tools/call"
    /\ ToolLookup(call.params.name).tag = "Ok"

\* let mut server = server.lock().await; server.handle_request(request)
\* up to tool.execute(args).await, or to its return and the rest of
\* message_handler when no tool is executed
Dispatch(r) ==
    /\ pc[r] = "wait_server"
    /\ server = NoTask
    /\ server' = r
    /\ IF ReachesExecute(req[r])
       THEN /\ tools_lock = NoTask
            /\ tools_lock' = r
            /\ pc' = [pc EXCEPT ![r] = "execute"]
            /\ UNCHANGED <<response, queue, sent_count, pushed, http>>
       ELSE /\ NeedsRegistry(req[r]) => tools_lock = NoTask
            /\ Respond(r, HandleWithoutExecute(req[r]))
            /\ UNCHANGED tools_lock
    /\ UNCHANGED <<sent, req, tx, executed, tools, registered>>
    /\ UNCHANGED <<connections, state_lock, stream, yielded_count, last_seq, endpoint>>
    /\ UNCHANGED reaperVars

\* tool.execute(args).await returns, the registry guard is dropped and
\* message_handler goes on
ToolExecuteReturns(r, outcome) ==
    /\ pc[r] = "execute"
    /\ tools_lock' = NoTask
    /\ executed' = [executed EXCEPT ![r] = outcome]
    /\ Respond(r, ExecuteResponse(req[r].id, outcome))
    /\ UNCHANGED <<sent, req, tx, server, tools, registered>>
    /\ UNCHANGED <<connections, state_lock, stream, yielded_count, last_seq, endpoint>>
    /\ UNCHANGED reaperVars

\* tx.send(..).await is woken: the channel has room or was closed
SendResumes(r) ==
    /\ pc[r] = "sending"
    /\ SendOutcome(tx[r]) # "pending"
    /\ IF SendOutcome(tx[r]) = "closed"
       THEN /\ Returning(r, HttpErr(500))
            /\ UNCHANGED <<queue, sent_count, pushed>>
       ELSE SendCompletes(r, tx[r], response[r].env)
    /\ UNCHANGED <<sent, req, tx, executed, response>>
    /\ UNCHANGED <<server, tools_lock, tools, registered>>
    /\ UNCHANGED <<connections, state_lock, stream, yielded_count, last_seq, endpoint>>
    /\ UNCHANGED reaperVars

\* the handler returns: the client gets the result, and the request, the
\* sender, the response and the server guard (if taken) are dropped
Return(r) ==
    /\ pc[r] = "returning"
    /\ pc' = [pc EXCEPT ![r] = "done"]
    /\ server' = IF server = r THEN NoTask ELSE server
    /\ sent' = [sent EXCEPT ![r] = NotSent]
    /\ req' = [req EXCEPT ![r] = NoCall]
    /\ tx' = [tx EXCEPT ![r] = NoSession]
    /\ executed' = [executed EXCEPT ![r] = NoOutcome]
    /\ response' = [response EXCEPT ![r] = NoResult]
    /\ pushed' = [pushed EXCEPT ![r] = NoEvent]
    /\ http' = [http EXCEPT ![r] = NoHttp]
    /\ state_lock' = IF state_lock = r THEN NoTask ELSE state_lock
    /\ UNCHANGED <<tools_lock, tools, registered>>
    /\ UNCHANGED <<connections, streamVars, reaperVars>>

(***************************************************************************)
(* connection_cleanup                                                      *)
(***************************************************************************)
\* the pass removes every session
CleanupDeadConnections_All(conns) == [s \in {} |-> NoSession]

\* state.connections.retain(|_, tx| !tx.is_closed())
CleanupDeadConnections(conns) ==
    [s \in {k \in DOMAIN conns : ~IsClosed(conns[k])} |-> conns[s]]

\* the pass retains the closed senders
CleanupTick_Inverted ==
    /\ state_lock = NoTask
    /\ state_lock' = TableGuardAfterRetain
    /\ connections' =
         [s \in {k \in DOMAIN connections : IsClosed(connections[k])}
            |-> connections[s]]
    /\ UNCHANGED age
    /\ UNCHANGED <<streamVars, serverVars, reqVars>>

\* the task start_cleanup_task spawns:
\* interval.tick().await; cleanup_dead_connections(&state).await
CleanupTick ==
    /\ state_lock = NoTask
    /\ state_lock' = TableGuardAfterRetain
    /\ connections' = CleanupDeadConnections(connections)
    /\ UNCHANGED age
    /\ UNCHANGED <<streamVars, serverVars, reqVars>>

\* tick periods a disconnected session has spent in the table
Aged(a) ==
    [s \in SessionIds |->
        IF IsClosed(s) /\ s \in DOMAIN connections /\ a[s] < MaxAge
        THEN a[s] + 1 ELSE a[s]]

\* one period of 60 seconds elapses in a server that spawned no reaper
PeriodElapses ==
    /\ Aged(age) # age
    /\ age' = Aged(age)
    /\ UNCHANGED <<connections, state_lock, streamVars, serverVars, reqVars>>

Next ==
    \/ SseHandler
    \/ \E s \in SessionIds : StreamYieldEndpoint(s)
    \/ \E s \in SessionIds : StreamYieldEvent(s)
    \/ \E s \in SessionIds : ConsumerDisconnects(s)
    \/ \E r \in Reqs, sid \in SessionIds \cup {NoSession},
          w \in JsonRpcRequestWrapper : Submit(r, sid, w)
    \/ \E r \in Reqs : Dispatch(r)
    \/ \E r \in Reqs, o \in ToolOutcomes : ToolExecuteReturns(r, o)
    \/ \E r \in Reqs : SendResumes(r)
    \/ \E r \in Reqs : Return(r)
    \/ CleanupTick

\* the transport with the reaper of start_cleanup_task on its state
Spec == Init /\ [][Next]_vars

\* the server built by create_router: nothing spawns the reaper
NextRouter ==
    \/ SseHandler
    \/ \E s \in SessionIds : StreamYieldEndpoint(s)
    \/ \E s \in SessionIds : StreamYieldEvent(s)
    \/ \E s \in SessionIds : ConsumerDisconnects(s)
    \/ \E r \in Reqs, sid \in SessionIds \cup {NoSession},
          w \in JsonRpcRequestWrapper : Submit(r, sid, w)
    \/ \E r \in Reqs : Dispatch(r)
    \/ \E r \in Reqs, o \in ToolOutcomes : ToolExecuteReturns(r, o)
    \/ \E r \in Reqs : SendResumes(r)
    \/ \E r \in Reqs : Return(r)
    \/ PeriodElapses

RouterSpec == Init /\ [][NextRouter]_vars

(***************************************************************************)
(* McpServer used on its own: registration of tools, and handle_request    *)
(* called on the server itself.                                            *)
(***************************************************************************)
\* McpServer::new: tools: Mutex::new(HashMap::new())
NewRegistry == [n \in {} |-> NoTask]

\* Box<dyn McpTool>: what its name() returns, and the implementation
Tools == [name : DOMAIN RegisteredAtStartup, tool : ToolImpls]

Batches == UNION {[1..k -> Tools] : k \in 0..MaxBatch}

\* the entries of the log for the tools of one call
LoggedBy(batch, method) ==
    [i \in DOMAIN batch |->
        [name |-> batch[i].name, tool |-> batch[i].tool, by |-> method]]

\* for tool in tools { tools_lock.insert(tool.name().to_string(), tool) }
RECURSIVE InsertAll(_, _)
InsertAll(map, batch) ==
    IF batch = <<>> THEN map
    ELSE InsertAll(Insert(map, Head(batch).name, Head(batch).tool),
                   Tail(batch))

\* the registration methods: lock the registry, insert, unlock (the caller
\* has dropped the response of an earlier handle_request)
Register(batch, method) ==
    /\ Len(registered) + Len(batch) <= MaxRegistrations
    /\ tools_lock = NoTask
    /\ tools' = InsertAll(tools, batch)
    /\ registered' = registered \o LoggedBy(batch, method)
    /\ req' = [req EXCEPT ![1] = NoCall]
    /\ response' = [response EXCEPT ![1] = NoResult]
    /\ UNCHANGED <<server, tools_lock>>
    /\ UNCHANGED <<pc, sent, tx, executed, pushed, http>>
    /\ UNCHANGED <<connections, state_lock, streamVars, reaperVars>>

WithTool(tool) == Register(<<tool>>, "with_tool")

WithTools(batch) == Register(batch, "with_tools")

RegisterTool(tool) == Register(<<tool>>, "register_tool")

RegisterTools(batch) == Register(batch, "register_tools")

\* the requests handed to handle_request that execute no tool
DirectCalls ==
    {[type |-> "MethodCall", method |-> m, params |-> ParamsNone,
      id |-> IdNum(n)] : m \in {"tools/list"}, n \in {7}}

\* server.handle_request(request).await on the server itself
HandleRequest(call) ==
    /\ ~ReachesExecute(call)
    /\ NeedsRegistry(call) => tools_lock = NoTask
    /\ req' = [req EXCEPT ![1] = call]
    /\ response' = [response EXCEPT ![1] = HandleWithoutExecute(call)]
    /\ UNCHANGED <<pc, sent, tx, executed, pushed, http>>
    /\ UNCHANGED <<connections, state_lock, streamVars, serverVars, reaperVars>>

InitRegistry ==
    /\ connections = [s \in {} |-> NoSession]
    /\ state_lock = NoTask
    /\ stream = [s \in SessionIds |-> "none"]
    /\ queue = [s \in SessionIds |-> <<>>]
    /\ sent_count = [s \in SessionIds |-> 0]
    /\ yielded_count = [s \in SessionIds |-> 0]
    /\ last_seq = [s \in SessionIds |-> 0]
    /\ endpoint = [s \in SessionIds |-> NoUrl]
    /\ server = NoTask
    /\ tools_lock = NoTask
    /\ tools = NewRegistry
    /\ registered = <<>>
    /\ pc = [r \in Reqs |-> "idle"]
    /\ sent = [r \in Reqs |-> NotSent]
    /\ req = [r \in Reqs |-> NoCall]
    /\ tx = [r \in Reqs |-> NoSession]
    /\ executed = [r \in Reqs |-> NoOutcome]
    /\ response = [r \in Reqs |-> NoResult]
    /\ pushed = [r \in Reqs |-> NoEvent]
    /\ http = [r \in Reqs |-> NoHttp]
    /\ age = [s \in SessionIds |-> 0]

NextRegistry ==
    \/ \E tool \in Tools : WithTool(tool)
    \/ \E batch \in Batches : WithTools(batch)
    \/ \E tool \in Tools : RegisterTool(tool)
    \/ \E batch \in Batches : RegisterTools(batch)
    \/ \E call \in DirectCalls : HandleRequest(call)

RegistrySpec == InitRegistry /\ [][NextRegistry]_vars

(***************************************************************************)
(* Vocabulary of the properties.                                           *)
(***************************************************************************)
\* submission r passed the session lookup and holds a sender
Accepted(r) == tx[r] # NoSession

\* submission r takes, in this step, the step that fixes its HTTP result
Completes(r) == pc[r] # "returning" /\ pc'[r] = "returning"

\* submission r comes out of handle_request in this step
LeavesDispatcher(r) ==
    /\ pc[r] \in {"wait_server", "execute"}
    /\ pc'[r] \in {"returning", "sending"}

IsSuccessEnvelope(x) == x.tag = "Ok" /\ x.env.kind = "success"
IsFailureEnvelope(x) == x.tag = "Ok" /\ x.env.kind = "failure"

\* the id a client has to have sent to get this id back
WireIdOf(id) == IF id.kind = "Null" THEN AbsentId ELSE UIntId(id.num)

NamesUnregisteredTool(call) ==
    /\ call.type = "MethodCall"
    /\ call.method = "tools/call"
    /\ call.params.kind = "Map"
    /\ call.params.has_name
    /\ call.params.name \notin DOMAIN tools

\* the step that refuses an unknown session id
C1_RejectStep ==
    \A r \in Reqs :
        (/\ pc[r] = "idle" /\ pc'[r] # "idle"
         /\ sent'[r].sid # NoSession
         /\ sent'[r].sid \notin DOMAIN connections)
        => /\ pc'[r] = "returning"
           /\ http'[r] = HttpErr(404)
           /\ queue' = queue /\ sent_count' = sent_count
           /\ server' = server /\ tools_lock' = tools_lock

\* a refused submission has no sender, no Request, no dispatcher result
C1_Rejected ==
    \A r \in Reqs :
        (pc[r] = "returning" /\ http[r].status = 404)
        => /\ ~Accepted(r)
           /\ req[r] = NoCall
           /\ response[r] = NoResult
           /\ pushed[r] = NoEvent
           /\ server # r /\ tools_lock # r

\* a refused submission does nothing but return
C1_RejectedStays ==
    \A r \in Reqs :
        (pc[r] = "returning" /\ http[r].status = 404)
        => \/ pc'[r] = "done"
           \/ /\ pc'[r] = "returning" /\ http'[r] = http[r]
              /\ req'[r] = NoCall /\ response'[r] = NoResult

(***************************************************************************)
(* C1: a submission whose sessionId is not a key of the Session Table when *)
(* it is looked up returns 404; it never gets a sender, a Request or a     *)
(* dispatcher result, takes no lock, and leaves every channel as it was.   *)
(***************************************************************************)
C1_UnknownSessionRejected ==
    /\ []C1_Rejected
    /\ [][C1_RejectStep /\ C1_RejectedStays]_vars

\* C1: an unknown session id is refused while another session is live
C1_Witness ==
    \E r \in Reqs :
        /\ pc[r] = "returning" /\ http[r].status = 404
        /\ sent[r].sid \in SessionIds
        /\ DOMAIN connections # {}

(***************************************************************************)
(* C2, as claimed: every submission to a session that was in the table and *)
(* had its consumer connected when the submission was received, and for    *)
(* which the dispatcher produces a success envelope, returns that envelope *)
(* with status 200, having sent it as a "message" event on the session's   *)
(* channel.                                                                *)
(***************************************************************************)
C2_EverySuccessEchoed ==
    \A r \in Reqs :
        (/\ pc[r] = "returning" /\ Accepted(r) /\ sent[r].live
         /\ IsSuccessEnvelope(response[r]))
        => /\ http[r] = HttpOk(response[r].env)
           /\ pushed[r].event = "message"
           /\ pushed[r].data = response[r].env

\* a success envelope is returned with its event sent, or dropped with a
\* 500 on a closed channel
C2_EchoedOrClosed ==
    \A r \in Reqs :
        (pc[r] = "returning" /\ Accepted(r) /\ IsSuccessEnvelope(response[r]))
        => \/ /\ http[r] = HttpOk(response[r].env)
              /\ pushed[r].event = "message"
           \/ /\ http[r] = HttpErr(500)
              /\ pushed[r] = NoEvent
              /\ IsClosed(tx[r])

\* a returned success envelope is the data of the event the submission sent
\* on the channel of its session
C2_Echoed ==
    \A r \in Reqs :
        (pc[r] = "returning" /\ http[r].status = 200
            /\ http[r].body.kind = "success")
        => /\ pushed[r] = MessageEvent(http[r].body, sent[r].sid, pushed[r].seq)
           /\ pushed[r].seq >= 1
           /\ tx[r] = sent[r].sid
           /\ IsClosed(tx[r]) \/ pushed[r].seq <= sent_count[tx[r]]

\* the event is buffered, once, in the step that fixes the 200
C2_SendOnReturn ==
    \A r \in Reqs :
        (Completes(r) /\ http'[r].status = 200
            /\ http'[r].body.kind = "success")
        => /\ sent_count'[tx[r]] = sent_count[tx[r]] + 1
           /\ pushed'[r].seq = sent_count'[tx[r]]
           /\ queue'[tx[r]] = Append(queue[tx[r]], Buffered(pushed'[r]))

\* a channel accepts one event at a time, from a submission to its session
\* that returns 200 with the data of the event
C2_OneEventPerSend ==
    \A s \in SessionIds :
        sent_count'[s] > sent_count[s]
        => /\ sent_count'[s] = sent_count[s] + 1
           /\ \A t \in SessionIds \ {s} : sent_count'[t] = sent_count[t]
                                            /\ queue'[t] = queue[t]
           /\ \E r \in Reqs :
                /\ Completes(r) /\ tx[r] = s
                /\ http'[r] = HttpOk(pushed'[r].data)
                /\ http'[r].body.kind = "success"

(***************************************************************************)
(* C2, amended: a submission for which the dispatcher produces a success   *)
(* envelope returns either that envelope with status 200, having sent it   *)
(* as exactly one "message" event on the channel of its own session before *)
(* it returns, or status 500 with nothing sent, the channel being closed;  *)
(* and every event a channel accepts is the one event of a submission that *)
(* thereby returns 200 with the envelope of the event.                     *)
(***************************************************************************)
C2_SuccessEchoedOnce ==
    /\ [](C2_Echoed /\ C2_EchoedOrClosed)
    /\ [][C2_SendOnReturn /\ C2_OneEventPerSend]_vars

\* C2: a success envelope is about to be returned and its event is buffered
C2_Witness ==
    \E r \in Reqs :
        /\ pc[r] = "returning" /\ http[r].status = 200
        /\ http[r].body.kind = "success"
        /\ queue[tx[r]] # <<>>
        /\ Buffered(pushed[r]) = queue[tx[r]][Len(queue[tx[r]])]

\* the step in which a call to an unregistered tool leaves the dispatcher
C3_UnknownToolStep ==
    \A r \in Reqs :
        (LeavesDispatcher(r) /\ NamesUnregisteredTool(req[r]))
        => /\ IsFailureEnvelope(response'[r])
           /\ http'[r] = HttpOk(response'[r].env)

(***************************************************************************)
(* C3: a tools/call naming a tool that is not in the registry comes out of *)
(* the dispatcher as a failure envelope, and the submission returns it     *)
(* with status 200.                                                        *)
(***************************************************************************)
C3_UnknownToolIsFailureEnvelope == [][C3_UnknownToolStep]_vars

(***************************************************************************)
(* C4: a method call submitted to a live session returns an envelope       *)
(* (status 200) whose id is the id the client sent, and the event echoed   *)
(* on the stream carries the same id.                                      *)
(***************************************************************************)
C4_MatchingId ==
    \A r \in Reqs :
        (pc[r] = "returning" /\ Accepted(r) /\ sent[r].id.kind # "absent")
        => /\ http[r].status = 200
           /\ WireIdOf(http[r].body.id) = sent[r].id
           /\ pushed[r] # NoEvent => WireIdOf(pushed[r].data.id) = sent[r].id

(***************************************************************************)
(* C5: in the server built by create_router, a session whose consumer has  *)
(* been disconnected for two tick periods is no longer in the Session      *)
(* Table.                                                                  *)
(***************************************************************************)
C5_ReapedWithinTwoTicks ==
    \A s \in SessionIds :
        (IsClosed(s) /\ age[s] >= 2) => s \notin DOMAIN connections

\* the step in which a success envelope meets a full or closed channel
C6_FullOrClosedStep ==
    \A r \in Reqs :
        (/\ LeavesDispatcher(r)
         /\ IsSuccessEnvelope(response'[r])
         /\ IsFull(tx[r]) \/ IsClosed(tx[r]))
        => /\ pc'[r] = "returning"
           /\ http'[r] = HttpErr(500)

(***************************************************************************)
(* C6: a submission whose dispatcher result is a success envelope and      *)
(* whose channel is full or closed returns 500 at once; it is never left   *)
(* waiting in send.                                                        *)
(***************************************************************************)
C6_FullChannelIsServerError == [][C6_FullOrClosedStep]_vars

(***************************************************************************)
(* C7: a submission to a session whose consumer is connected and whose     *)
(* channel has room never waits behind a submission that is suspended on   *)
(* the full channel of another session.                                    *)
(***************************************************************************)
C7_SessionsIsolated ==
    \A a, b \in Reqs :
        ~ /\ pc[a] = "sending" /\ server = a
          /\ pc[b] = "wait_server"
          /\ tx[a] # tx[b]
          /\ stream[tx[b]] = "streaming"
          /\ ~IsFull(tx[b])

(***************************************************************************)
(* C8: no lock is held across a tool's execute, so that a second           *)
(* submission can be inside execute at the same time.                      *)
(***************************************************************************)
C8_NoLockAcrossExecute ==
    \A r \in Reqs : pc[r] = "execute" => (server # r /\ tools_lock # r)

\* what the locks make of it: never two submissions inside execute
ExecuteIsSerialized ==
    Cardinality({r \in Reqs : pc[r] = "execute"}) <= 1

\* the buffer of a connected stream holds, in order, the events sent after
\* the one the stream yielded last
C9_InOrder ==
    \A s \in SessionIds :
        stream[s] \in {"created", "streaming"}
        => /\ last_seq[s] = yielded_count[s]
           /\ Len(queue[s]) = sent_count[s] - yielded_count[s]
           /\ \A i \in 1..Len(queue[s]) : queue[s][i].seq = yielded_count[s] + i

\* an event is sent behind every event its channel accepted before
C9_SentBehind ==
    \A r \in Reqs :
        (Completes(r) /\ pushed'[r] # NoEvent)
        => /\ pushed[r] = NoEvent
           /\ pushed'[r].seq = sent_count[tx[r]] + 1
           /\ pushed'[r].seq > last_seq[tx[r]]
           /\ \A i \in 1..Len(queue[tx[r]]) :
                  queue[tx[r]][i].seq < pushed'[r].seq

C10_FailureStep ==
    \A r \in Reqs :
        (LeavesDispatcher(r) /\ IsFailureEnvelope(response'[r]))
        => /\ pc'[r] = "returning"
           /\ http'[r] = HttpOk(response'[r].env)
           /\ pushed'[r] = NoEvent
           /\ queue' = queue /\ sent_count' = sent_count

\* a failure envelope is returned with status 200 and without an event
C10_FailureReturned ==
    \A r \in Reqs :
        IsFailureEnvelope(response[r])
        => /\ pc[r] = "returning"
           /\ http[r] = HttpOk(response[r].env)
           /\ pushed[r] = NoEvent

(***************************************************************************)
(* C10: a submission whose dispatcher result is a failure envelope returns *)
(* that envelope with status 200 and sends no event, also when the channel *)
(* of its session is full or closed.                                       *)
(***************************************************************************)
C10_FailureNotEchoed == []C10_FailureReturned /\ [][C10_FailureStep]_vars

\* C10: a tool's execution failure is returned while the channel is full
C10_Witness ==
    \E r \in Reqs :
        /\ pc[r] = "returning"
        /\ http[r] = HttpOk(Failure(req[r].id, ServerErrorCode))
        /\ IsFull(tx[r])

(***************************************************************************)
(* C11: a submission whose body has no id (a notification), whatever its   *)
(* method, never sends an event on the channel of its session.             *)
(***************************************************************************)
C11_NotificationNotEchoed ==
    \A r \in Reqs :
        (Accepted(r) /\ sent[r].id.kind = "absent") => pushed[r] = NoEvent

\* the names that were registered, and the last tool registered under a name
RegisteredNames == {registered[i].name : i \in DOMAIN registered}

LastRegistered(n) ==
    LET last == CHOOSE i \in DOMAIN registered :
                    /\ registered[i].name = n
                    /\ \A j \in DOMAIN registered :
                           registered[j].name = n => j <= i
    IN registered[last].tool

\* a listing with one entry per registered name, the last tool registered
\* under it
OneEntryPerName(listing) ==
    /\ Len(listing) = Cardinality(RegisteredNames)
    /\ \A n \in RegisteredNames :
           Cardinality({i \in DOMAIN listing : listing[i].name = n}) = 1
    /\ \A i \in DOMAIN listing :
           /\ listing[i].name \in RegisteredNames
           /\ listing[i].tool = LastRegistered(listing[i].name)

\* what tools/list returns, and has returned, for the registry as it is
C12_ListingIsLastRegistrations ==
    /\ OneEntryPerName(ListToolsResult.listing)
    /\ req[1].method = "tools/list"
       => /\ response[1] = Ok(Success(req[1].id, ListToolsResult))
          /\ OneEntryPerName(response[1].env.result.listing)

\* a tools/list handed to the server returns the listing of the registry as
\* it is, with the id of the request, and leaves the registry alone
C12_ListStep ==
    (response'[1] # response[1] /\ req'[1].method = "tools/list")
    => /\ response'[1] = Ok(Success(req'[1].id, ListToolsResult))
       /\ OneEntryPerName(response'[1].env.result.listing)
       /\ UNCHANGED <<tools, registered>>

(***************************************************************************)
(* C12: after any sequence of with_tool, with_tools, register_tool and     *)
(* register_tools calls, tools/list returns exactly one entry per          *)
(* registered name, and the entry of a name is the tool registered last    *)
(* under it (within a batch, the last of the batch).                       *)
(***************************************************************************)
C12_OneEntryPerRegisteredName ==
    /\ []C12_ListingIsLastRegistrations
    /\ [][C12_ListStep]_vars

\* C12: a name was registered twice with different tools, the second time
\* in a batch, and tools/list has returned the one entry of the registry,
\* with the second tool
C12_Witness ==
    /\ \E i, j \in DOMAIN registered :
           /\ i < j
           /\ registered[i].name = registered[j].name
           /\ registered[i].tool # registered[j].tool
           /\ registered[j].by \in {"with_tools", "register_tools"}
    /\ req[1].method = "tools/list"
    /\ response[1] = Ok(Success(req[1].id, ListToolsResult))
    /\ Len(response[1].env.result.listing) = 1
    /\ response[1].env.result.listing[1].tool
         = registered[Len(registered)].tool

\* a tools/call with an object as params that names a tool of the registry
IsValidToolsCall(call) ==
    /\ call.type = "MethodCall"
    /\ call.method = "tools/call"
    /\ call.params.kind = "Map"
    /\ call.params.has_name
    /\ call.params.name \in DOMAIN tools

\* a valid tools/call goes into execute, and only a valid tools/call does
C13_ValidCallExecutes ==
    \A r \in Reqs :
        (pc[r] = "wait_server" /\ pc'[r] # "wait_server")
        => (IsValidToolsCall(req[r]) <=> pc'[r] = "execute")

\* the result of execute is in the success envelope, with the request's id
C13_ResultInEnvelope ==
    \A r \in Reqs :
        executed[r].ok
        => /\ IsValidToolsCall(req[r])
           /\ response[r].tag = "Ok"
           /\ response[r].env.kind = "success"
           /\ response[r].env.id = req[r].id
           /\ response[r].env.result.tag = "tools/call"
           /\ response[r].env.result.content = executed[r].content
           /\ response[r].env.result.is_error = executed[r].is_error

ExecuteFailed(o) == ~o.ok /\ o.error # ""

\* the failure envelope of a failed execution
C14_ServerErrorEnvelope ==
    \A r \in Reqs :
        ExecuteFailed(executed[r])
        => /\ response[r] = Ok(Failure(req[r].id, ServerErrorCode))
           /\ response[r].env.result.content = <<>>
           /\ response[r].env.result.code = -32000
           /\ tools = RegisteredAtStartup

\* the step in which execute returns leaves the registry as it was
C14_RegistryUnchanged ==
    \A r \in Reqs :
        (pc[r] = "execute" /\ pc'[r] # "execute")
        => /\ tools' = tools
           /\ executed'[r] # NoOutcome

(***************************************************************************)
(* C14: when the execute of a registered tool returns a failure, the       *)
(* dispatcher returns a failure envelope with code -32000 and the          *)
(* request's id that carries nothing of the failure's detail, the same for *)
(* every tool and every detail, and the registry is left unchanged.        *)
(***************************************************************************)
C14_ExecutionFailureIsServerError ==
    /\ []C14_ServerErrorEnvelope
    /\ [][C14_RegistryUnchanged]_vars

\* C14: the execute of "multiply" has failed with detail "timeout" and the
\* envelope is about to be returned
C14_Witness ==
    \E r \in Reqs :
        /\ pc[r] = "returning"
        /\ req[r].params.name = "multiply"
        /\ executed[r].error = "timeout"
        /\ http[r] = HttpOk(Failure(req[r].id, ServerErrorCode))

\* a tools/call whose params are absent, not an object, or lack the name
IsMalformedToolsCall(call) ==
    /\ call.type = "MethodCall"
    /\ call.method = "tools/call"
    /\ call.params.kind # "Map" \/ ~call.params.has_name

\* the step in which a malformed tools/call leaves the dispatcher
C15_MalformedStep ==
    \A r \in Reqs :
        (LeavesDispatcher(r) /\ IsMalformedToolsCall(req[r]))
        => /\ IsFailureEnvelope(response'[r])
           /\ response'[r].env.id = req[r].id
           /\ http'[r] = HttpOk(response'[r].env)

(***************************************************************************)
(* C15: a tools/call with malformed params comes out of the dispatcher as  *)
(* a failure envelope with the request's id, and the submission returns    *)
(* that envelope with status 200.                                          *)
(***************************************************************************)
C15_MalformedParamsIsFailureEnvelope == [][C15_MalformedStep]_vars

\* a stream that has not been polled has yielded nothing; a polled one has
\* yielded the endpoint event with the URI of its own session
C16_EndpointOfOwnSession ==
    \A s \in SessionIds :
        /\ stream[s] = "created"
           => (endpoint[s] = NoUrl /\ yielded_count[s] = 0)
        /\ stream[s] = "streaming"
           => endpoint[s] = [path |-> "/message", sessionId |-> s]

\* the endpoint event is yielded once, as the first event of the stream,
\* and a message event is yielded only after it
C16_EndpointFirst ==
    \A s \in SessionIds :
        /\ (endpoint'[s] # endpoint[s] /\ endpoint'[s] # NoUrl)
           => /\ endpoint[s] = NoUrl
              /\ stream[s] = "created"
              /\ yielded_count[s] = 0 /\ yielded_count'[s] = 0
              /\ queue'[s] = queue[s]
        /\ yielded_count'[s] > yielded_count[s]
           => /\ endpoint[s] # NoUrl
              /\ endpoint'[s] = endpoint[s]
        /\ stream[s] = "streaming" => stream'[s] \in {"streaming", "closed"}

(***************************************************************************)
(* C16: the first event a stream yields is the "endpoint" event with       *)
(* /message?sessionId=<the id of its own session>; a stream yields one     *)
(* endpoint event, and every "message" event after it, also the events     *)
(* that were sent before the stream was first polled.                      *)
(***************************************************************************)
C16_EndpointThenMessages ==
    /\ []C16_EndpointOfOwnSession
    /\ [][C16_EndpointFirst]_vars

\* C16: one stream has yielded its endpoint event and then a message event,
\* and another, not yet polled, has an event waiting in its channel
C16_Witness ==
    \E s, t \in SessionIds :
        /\ stream[s] = "streaming"
        /\ endpoint[s].sessionId = s
        /\ yielded_count[s] >= 1
        /\ stream[t] = "created"
        /\ queue[t] # <<>>

\* a stream that can still yield is in the table with its own open channel
C17_LiveChannel ==
    \A s \in SessionIds :
        stream[s] \in {"created", "streaming"}
        => /\ s \in DOMAIN connections
           /\ connections[s] = s
           /\ ~IsClosed(connections[s])

\* the step that yields the endpoint event
C17_EndpointStep ==
    \A s \in SessionIds :
        (endpoint[s] = NoUrl /\ endpoint'[s] # NoUrl)
        => /\ endpoint'[s].sessionId \in DOMAIN connections'
           /\ connections'[endpoint'[s].sessionId] = s
           /\ ~IsClosed(s)
           /\ stream'[s] = "streaming"

(***************************************************************************)
(* C17: when a stream yields its endpoint event, the session id in the     *)
(* event is a key of the Session Table, mapped to the sender of the open   *)
(* channel that this stream receives from, whatever stream-opens,          *)
(* submissions and reaper passes have happened.                            *)
(***************************************************************************)
C17_EndpointNamesLiveSession ==
    /\ []C17_LiveChannel
    /\ [][C17_EndpointStep]_vars

\* C17: a stream has yielded its endpoint event after a reaper pass has
\* removed another session, with a submission in its handler
C17_Witness ==
    \E s, t \in SessionIds :
        /\ stream[s] = "streaming" /\ endpoint[s] # NoUrl
        /\ s \in DOMAIN connections
        /\ stream[t] = "closed" /\ t \notin DOMAIN connections
        /\ \E r \in Reqs : pc[r] \in {"wait_server", "execute", "sending"}

\* a method call whose method the dispatcher does not know
IsUnknownMethod(call) ==
    /\ call.type = "MethodCall"
    /\ call.method \notin {"initialize", "tools/list", "tools/call"}

\* the step in which a call of an unknown method is dispatched
C18_UnknownMethodStep ==
    \A r \in Reqs :
        (pc[r] = "wait_server" /\ pc'[r] # "wait_server"
            /\ IsUnknownMethod(req[r]))
        => /\ response'[r] = Ok(Failure(req[r].id, MethodNotFoundCode))
           /\ pc'[r] = "returning"
           /\ tools' = tools
           /\ tools_lock' = tools_lock

\* a call of an unknown method never holds the registry, never executes a
\* tool, and has no other result than the "method not found" envelope
C18_UnknownMethodResult ==
    \A r \in Reqs :
        IsUnknownMethod(req[r])
        => /\ pc[r] # "execute"
           /\ tools_lock # r
           /\ executed[r] = NoOutcome
           /\ response[r] \in
                {NoResult, Ok(Failure(req[r].id, MethodNotFoundCode))}

(***************************************************************************)
(* C18: a method call whose method is not initialize, tools/list or        *)
(* tools/call gets the "method not found" failure envelope with the        *)
(* request's id; the dispatcher takes no registry lock for it, leaves the  *)
(* registry as it was and executes no tool.                                *)
(***************************************************************************)
C18_UnknownMethodNotFound ==
    /\ []C18_UnknownMethodResult
    /\ [][C18_UnknownMethodStep]_vars

\* C18: "notifications/initialized", sent as a method call, is about to be
\* answered with "method not found"
C18_Witness ==
    \E r \in Reqs :
        /\ pc[r] = "returning"
        /\ req[r].method = "notifications/initialized"
        /\ http[r] = HttpOk(Failure(req[r].id, MethodNotFoundCode))

\* the step that fixes the result of a submission whose channel is closed
C19_FailedSendStep ==
    \A r \in Reqs :
        (Completes(r) /\ Accepted(r) /\ IsClosed(tx[r]))
        => /\ response'[r] # NoResult
           /\ pushed'[r] = NoEvent
           /\ queue' = queue /\ sent_count' = sent_count
           /\ IsSuccessEnvelope(response'[r]) => http'[r] = HttpErr(500)

\* a submission that found its session is not dropped when the consumer
\* disconnects: its next step stays open to it, and it returns with a
\* dispatcher result
C19_StillHandled ==
    \A r \in Reqs :
        (Accepted(r) /\ IsClosed(tx[r]))
        => /\ (pc[r] = "wait_server" /\ server = NoTask) => ENABLED Dispatch(r)
           /\ pc[r] = "execute"
              => ENABLED (\E o \in ToolOutcomes : ToolExecuteReturns(r, o))
           /\ pc[r] = "sending" => ENABLED SendResumes(r)
           /\ pc[r] = "returning"
              => (response[r] # NoResult /\ http[r].status \in {200, 500})

(***************************************************************************)
(* C19: when the consumer of a session disconnects, or the reaper removes  *)
(* the session, after a submission has taken the session's sender and      *)
(* before it sends, the submission still goes through the dispatcher and   *)
(* the send, and if the dispatcher result is a success envelope it returns *)
(* 500 with nothing sent, never 200.                                       *)
(***************************************************************************)
C19_MidFlightDisconnectIsServerError ==
    /\ []C19_StillHandled
    /\ [][C19_FailedSendStep]_vars

\* C19: the consumer was connected when the submission was received, has
\* disconnected since, the reaper has removed the session, and the
\* submission is about to return 500 for its success envelope
C19_Witness ==
    \E r \in Reqs :
        /\ pc[r] = "returning"
        /\ sent[r].live
        /\ IsClosed(tx[r])
        /\ tx[r] \notin DOMAIN connections
        /\ IsSuccessEnvelope(response[r])
        /\ http[r] = HttpErr(500)

\* the step in which a send fails on a closed channel
C20_RemovedOnFailedSend ==
    \A r \in Reqs :
        (/\ Completes(r) /\ Accepted(r)
         /\ IsSuccessEnvelope(response'[r])
         /\ http'[r] = HttpErr(500))
        => tx[r] \notin DOMAIN connections'

(***************************************************************************)
(* C20: when the send of a submission fails because the channel is closed, *)
(* the session is removed from the Session Table in that step, without a   *)
(* reaper pass.                                                            *)
(***************************************************************************)
C20_EagerRemoval == [][C20_RemovedOnFailedSend]_vars

\* the entries of the table whose channel is closed
ClosedEntries == {k \in DOMAIN connections : IsClosed(connections[k])}

\* a step that takes entries out of the table takes out exactly the closed
\* ones, and changes nothing else
C21_PassRemovesClosed ==
    DOMAIN connections' # DOMAIN connections /\ connections' # connections
    => \/ /\ DOMAIN connections' = DOMAIN connections \ ClosedEntries
          /\ \A k \in DOMAIN connections' : connections'[k] = connections[k]
          /\ UNCHANGED <<streamVars, serverVars, reqVars>>
       \/ /\ DOMAIN connections \subseteq DOMAIN connections'
          /\ \A k \in DOMAIN connections : connections'[k] = connections[k]

\* no step removes a session whose consumer is connected, and a removed
\* session never comes back
C21_ConnectedStays ==
    \A s \in SessionIds :
        /\ (s \in DOMAIN connections /\ s \notin DOMAIN connections')
           => IsClosed(connections[s])
        /\ (stream[s] = "closed" /\ s \notin DOMAIN connections)
           => s \notin DOMAIN connections'
        /\ (s \in DOMAIN connections /\ stream'[s] \in {"created", "streaming"})
           => s \in DOMAIN connections'

\* what a pass leaves is left by a second pass, and every session whose
\* consumer is connected is in the table
C21_SecondPassRemovesNothing ==
    /\ CleanupDeadConnections(CleanupDeadConnections(connections))
         = CleanupDeadConnections(connections)
    /\ DOMAIN CleanupDeadConnections(connections)
         = DOMAIN connections \ ClosedEntries
    /\ \A s \in SessionIds :
           stream[s] \in {"created", "streaming"} => s \in DOMAIN connections

(***************************************************************************)
(* C21: a reaper pass removes exactly the entries of the Session Table     *)
(* whose channel is closed and leaves the others as they were; no step     *)
(* removes a session whose consumer is connected; a second pass without a  *)
(* disconnect in between removes nothing, and a removed session is never   *)
(* removed again.                                                          *)
(***************************************************************************)
C21_ReaperRemovesExactlyClosed ==
    /\ []C21_SecondPassRemovesNothing
    /\ [][C21_PassRemovesClosed /\ C21_ConnectedStays]_vars

\* C21: a pass has removed a disconnected session and left a connected one,
\* which has an event waiting in its channel
C21_Witness ==
    \E s, t \in SessionIds :
        /\ stream[s] = "closed" /\ s \notin DOMAIN connections
        /\ stream[t] = "streaming" /\ t \in DOMAIN connections
        /\ queue[t] # <<>>
        /\ ClosedEntries = {}

\* the Session Table's lock is free whenever tasks are suspended, and the
\* registry lock is only held under the server lock
C22_TableLockFree ==
    /\ state_lock = NoTask
    /\ tools_lock # NoTask => tools_lock = server
    /\ \A r \in Reqs :
           (server = r \/ tools_lock = r)
           => pc[r] \in {"execute", "sending", "returning"}

\* a stream-open and a reaper pass can take their step whatever the
\* submissions are suspended on
C22_TableOperationsEnabled ==
    /\ ENABLED CleanupTick
    /\ FreshSessionIds # {} => ENABLED SseHandler

\* no submission waits for a lock while it holds one
C22_NoHoldAndWait ==
    \A r \in Reqs :
        pc[r] = "wait_server"
        => (server # r /\ tools_lock # r /\ state_lock # r)

(***************************************************************************)
(* C22: the lock of the Session Table is held for one lookup, insert or    *)
(* retain and never while a task is suspended on the server lock, the      *)
(* registry lock, a tool's execution or a send; a stream-open or a reaper  *)
(* pass can always take its step; no task waits for a lock while it holds  *)
(* one, so tasks never wait for each other's locks in a cycle.             *)
(***************************************************************************)
C22_TableLockNotHeldAcrossAwait ==
    [](C22_TableLockFree /\ C22_TableOperationsEnabled /\ C22_NoHoldAndWait)

\* C22: one submission is suspended in its send with the server lock,
\* another waits for the server lock, and a reaper pass has removed a
\* session
C22_Witness ==
    \E a, b \in Reqs :
        /\ pc[a] = "sending" /\ server = a
        /\ pc[b] = "wait_server"
        /\ state_lock = NoTask
        /\ \E s \in SessionIds : stream[s] = "closed" /\ s \notin DOMAIN connections

\* every event in a channel was sent by a submission to the channel's own
\* session, and a submission holds the sender of the session it names
C23_OwnEventsOnly ==
    /\ \A s \in SessionIds :
           \A i \in 1..Len(queue[s]) :
               /\ queue[s][i].event = "message"
               /\ queue[s][i].sid = s
    /\ \A r \in Reqs :
           Accepted(r) => tx[r] = sent[r].sid

\* a submission takes the sender that the stream-open of its session id
\* inserted
C23_LookupStep ==
    \A r \in Reqs :
        (pc[r] = "idle" /\ pc'[r] = "wait_server")
        => /\ sent'[r].sid \in DOMAIN connections
           /\ tx'[r] = connections[sent'[r].sid]
           /\ tx'[r] = sent'[r].sid
           /\ connections' = connections

\* a send changes the channel of the submission's session and nothing of
\* another session
C23_SendStep ==
    \A r \in Reqs :
        (Completes(r) /\ pushed'[r] # NoEvent)
        => /\ pushed'[r].sid = sent[r].sid
           /\ queue'[sent[r].sid]
                = Append(queue[sent[r].sid], Buffered(pushed'[r]))
           /\ \A t \in SessionIds \ {sent[r].sid} :
                  /\ queue'[t] = queue[t]
                  /\ sent_count'[t] = sent_count[t]
                  /\ yielded_count'[t] = yielded_count[t]
                  /\ stream'[t] = stream[t]
           /\ connections' = connections

\* the event a stream yields was sent with the stream's own session id
C23_YieldStep ==
    \A s \in SessionIds :
        yielded_count'[s] > yielded_count[s]
        => /\ Head(queue[s]).sid = s
           /\ last_seq'[s] = Head(queue[s]).seq

(***************************************************************************)
(* C23: a submission with session id s sends only on the channel that the  *)
(* stream-open of s inserted; every "message" event a stream yields was    *)
(* sent by a submission with the stream's own session id; a submission     *)
(* leaves the channels and table entries of the other sessions unchanged.  *)
(***************************************************************************)
C23_EventsStayInTheirSession ==
    /\ []C23_OwnEventsOnly
    /\ [][C23_LookupStep /\ C23_SendStep /\ C23_YieldStep]_vars

\* C23: submissions to two sessions have sent events; one stream has
\* yielded its event and the event of the other waits in its channel
C23_Witness ==
    \E s, t \in SessionIds :
        /\ s # t
        /\ stream[s] = "streaming" /\ yielded_count[s] >= 1
        /\ stream[t] = "streaming" /\ queue[t] # <<>>
        /\ \E r \in Reqs : pc[r] = "returning" /\ pushed[r].sid = t

\* a submission to a session of the table is accepted, also when the
\* channel of the session is closed
C24_AcceptedStep ==
    \A r \in Reqs :
        (/\ pc[r] = "idle" /\ pc'[r] # "idle"
         /\ sent'[r].sid \in DOMAIN connections)
        => /\ pc'[r] = "wait_server"
           /\ Accepted(r)'

\* the result of a submission to a session that was closed when it was
\* received and whose dispatcher result is an envelope
C24_EnvelopeResults ==
    \A r \in Reqs :
        (/\ pc[r] = "returning" /\ Accepted(r) /\ ~sent[r].live
         /\ response[r].tag = "Ok")
        => /\ IsValidToolsCall(req[r]) => executed[r] # NoOutcome
           /\ IF IsSuccessEnvelope(response[r])
              THEN http[r] = HttpErr(500) /\ pushed[r] = NoEvent
              ELSE http[r] = HttpOk(response[r].env)

\* the result of a submission to a session that was closed when it was
\* received
C24_ClosedSessionResults ==
    \A r \in Reqs :
        (pc[r] = "returning" /\ Accepted(r) /\ ~sent[r].live)
        => /\ response[r] # NoResult
           /\ IsValidToolsCall(req[r]) => executed[r] # NoOutcome
           /\ IF IsSuccessEnvelope(response[r])
              THEN http[r] = HttpErr(500)
              ELSE /\ http[r].status = 200
                   /\ http[r].body.kind = "failure"

(***************************************************************************)
(* C24: a submission to a session whose consumer has disconnected and      *)
(* whose entry is still in the Session Table is accepted, goes through the *)
(* dispatcher and the execution of the tool it names, and then returns 500 *)
(* if the dispatcher result is a success envelope and 200 with the failure *)
(* envelope otherwise.                                                     *)
(***************************************************************************)
C24_ClosednessSeenAtPush ==
    /\ []C24_ClosedSessionResults
    /\ [][C24_AcceptedStep]_vars

====
